---- MODULE Spec2Model ----
(***************************************************************************)
(* Beam Analysis Report Generator (main.py).                               *)
(*                                                                         *)
(* generate_beam_report() reads beam_data.xlsx, builds a PyLaTeX Document  *)
(* by a fixed sequence of append/create calls, and calls generate_pdf.     *)
(* No exception is caught anywhere, so the first exception ends the run.   *)
(*                                                                         *)
(* Numbers.  A cell value is an integer number of quarters (v stands for   *)
(* v/4), so every value is an exact binary float and both conversions of   *)
(* the program are exact decimal operations:                               *)
(*   str(float)    0.25 -> "0.25", 6.0 -> "6.0", 67.5 -> "67.5"            *)
(*   format .1f    0.25 -> "0.2", 0.75 -> "0.8"  (round half to even)      *)
(* A rendered number is the record [sign, int, frac]: the text             *)
(* sign int "." frac.                                                      *)
(***************************************************************************)
EXTENDS Integers, Sequences, FiniteSets, TLC

VARIABLES
    xlsx,      \* beam_data.xlsx on disk: [exists, columns, rows]
    beam_png,  \* TRUE iff beam.png exists in the working directory
    latex,     \* TRUE iff a LaTeX compiler (latexmk / pdflatex) is installed
    tex,       \* beam_analysis_report.tex on disk: <<>> or <<content>>
    pdf,       \* beam_analysis_report.pdf on disk: <<>> or <<content>>
    pc,        \* position of the run inside generate_beam_report
    df,        \* the DataFrame: [columns, rows]
    doc,       \* the pylatex Document under construction
    it,        \* number of rows the table loop of line 67 has consumed
    stdout,    \* messages printed so far by this run
    exc,       \* uncaught exception that ended the run: [type, line] or NoExc
    written,   \* files this run has written
    run,       \* 1 for the first execution of the program, 2 for the second
    first      \* what the first execution read and left behind

vars == <<xlsx, beam_png, latex, tex, pdf, pc, df, doc, it, stdout, exc,
          written, run, first>>

(***************************************************************************)
(* Bounds of the model                                                     *)
(***************************************************************************)
MaxRows == 2

\* One spreadsheet row; values in quarters.
Row(x, s, m) == [c \in {"X", "Shear force", "Bending Moment"} |->
                    IF c = "X" THEN x ELSE IF c = "Shear force" THEN s ELSE m]

\* Rows the spreadsheets of the model are made of: a support, the two sides
\* of a point load at x = 6.0 (same X, shear 15.25 and -15.75), and a
\* station before them in X (so that file order is not X order).
Rows == { Row(24, 61, 270), Row(24, -63, 270), Row(3, -1, 0) }

RECURSIVE SeqsUpTo(_, _)
SeqsUpTo(S, n) ==
    IF n = 0 THEN {<<>>}
    ELSE LET shorter == SeqsUpTo(S, n - 1)
         IN  shorter \cup {Append(s, r) : s \in shorter, r \in S}

RequiredColumns == {"X", "Shear force", "Bending Moment"}

\* The column sets of the model: all three, or one of them absent.
ColumnSets == {RequiredColumns} \cup {RequiredColumns \ {c} : c \in RequiredColumns}

Restrict(row, cols) == [c \in cols |-> row[c]]

Sheets(cols) ==
    {[i \in DOMAIN rows |-> Restrict(rows[i], cols)] : rows \in SeqsUpTo(Rows, MaxRows)}

(***************************************************************************)
(* Number rendering                                                        *)
(***************************************************************************)
Abs(v) == IF v < 0 THEN -v ELSE v

\* f"{v}" of a float: the shortest repr, exact for quarters.
Str(v) ==
    [sign |-> IF v < 0 THEN "-" ELSE "",
     int  |-> Abs(v) \div 4,
     frac |-> CASE Abs(v) % 4 = 0 -> "0"
                [] Abs(v) % 4 = 1 -> "25"
                [] Abs(v) % 4 = 2 -> "5"
                [] Abs(v) % 4 = 3 -> "75"]

\* A plausible slip: the table cell rendered like the plot coordinates.
Format1_unrounded(v) == Str(v)

\* f"{v:.1f}": one digit after the point, ties (q.25, q.75) to the even digit.
Format1(v) ==
    [sign |-> IF v < 0 THEN "-" ELSE "",
     int  |-> Abs(v) \div 4,
     frac |-> CASE Abs(v) % 4 = 0 -> "0"
                [] Abs(v) % 4 = 1 -> "2"
                [] Abs(v) % 4 = 2 -> "5"
                [] Abs(v) % 4 = 3 -> "8"]

(***************************************************************************)
(* Results of a call: a value, or a raised exception                       *)
(***************************************************************************)
NoExc == [type |-> "", line |-> 0]
Return(v) == [ok |-> TRUE, value |-> <<v>>, exc |-> NoExc]
Raise(type, line) == [ok |-> FALSE, value |-> <<>>, exc |-> [type |-> type, line |-> line]]

\* row[key] of a pandas Series.
HasKeys(row, keys) == keys \subseteq DOMAIN row

\* for _, row in df.iterrows()
iterrows(d) == d.rows

(***************************************************************************)
(* generate_sfd_plot / generate_bmd_plot                                   *)
(***************************************************************************)
SfdHead ==
    [xlabel |-> "Beam Length (m)", ylabel |-> "Shear Force (kN)",
     xmin |-> 0, xmax |-> 12, ymin |-> -50, ymax |-> 50,
     xtick |-> <<0, 2, 4, 6, 8, 10, 12>>, ytick |-> <<-40, -20, 0, 20, 40>>,
     title |-> "Shear Force Diagram", color |-> "blue"]

SfdTail ==
    [zero_line |-> <<"(0,0)", "(12,0)">>, legend |-> <<"Shear Force", "Zero Line">>]

BmdHead ==
    [xlabel |-> "Beam Length (m)", ylabel |-> "Bending Moment (kNm)",
     xmin |-> 0, xmax |-> 12, ymin |-> 0, ymax |-> 180,
     xtick |-> <<0, 2, 4, 6, 8, 10, 12>>, ytick |-> <<0, 40, 80, 120, 160>>,
     title |-> "Bending Moment Diagram", color |-> "red"]

BmdTail == [zero_line |-> <<>>, legend |-> <<"Bending Moment">>]

\* f"        ({row['X']}, {row[field]})\n"
Coordinate(row, field) == [x |-> Str(row["X"]), y |-> Str(row[field])]

\* tikz_code += ... once per row, in iteration order.
RECURSIVE Coordinates(_, _)
Coordinates(rows, field) ==
    IF rows = <<>> THEN <<>>
    ELSE <<Coordinate(Head(rows), field)>> \o Coordinates(Tail(rows), field)

PlotFragment(head, coords, tail) ==
    [kind |-> "tikz", head |-> head, coordinates |-> coords, tail |-> tail]

\* A plausible slip: one point per X (a later row with an X already seen is
\* dropped), which loses the second side of a point load.
RECURSIVE DedupByX(_, _)
DedupByX(rows, seen) ==
    IF rows = <<>> THEN <<>>
    ELSE IF Head(rows)["X"] \in seen THEN DedupByX(Tail(rows), seen)
    ELSE <<Head(rows)>> \o DedupByX(Tail(rows), seen \cup {Head(rows)["X"]})

generate_sfd_plot_dedup(d) ==
    IF \E i \in DOMAIN iterrows(d) : ~HasKeys(iterrows(d)[i], {"X", "Shear force"})
    THEN Raise("KeyError", 155)
    ELSE Return(PlotFragment(SfdHead,
                             Coordinates(DedupByX(iterrows(d), {}), "Shear force"),
                             SfdTail))

\* A plausible slip: reading the first row for the axis, which an empty
\* DataFrame does not have.
generate_sfd_plot_first_row(d) ==
    IF iterrows(d) = <<>> THEN Raise("IndexError", 155)
    ELSE IF \E i \in DOMAIN iterrows(d) : ~HasKeys(iterrows(d)[i], {"X", "Shear force"})
    THEN Raise("KeyError", 155)
    ELSE Return(PlotFragment(SfdHead, Coordinates(iterrows(d), "Shear force"), SfdTail))

\* A plausible change: the y range taken from the data instead of the
\* literal ymax=50.
generate_sfd_plot_data_axis(d) ==
    IF \E i \in DOMAIN iterrows(d) : ~HasKeys(iterrows(d)[i], {"X", "Shear force"})
    THEN Raise("KeyError", 155)
    ELSE Return(PlotFragment(
             [SfdHead EXCEPT !.ymax =
                 IF iterrows(d) = <<>> THEN 50
                 ELSE CHOOSE m \in {iterrows(d)[i]["Shear force"] : i \in DOMAIN iterrows(d)} :
                        \A i \in DOMAIN iterrows(d) : iterrows(d)[i]["Shear force"] <= m],
             Coordinates(iterrows(d), "Shear force"), SfdTail))

generate_sfd_plot(d) ==
    IF \E i \in DOMAIN iterrows(d) : ~HasKeys(iterrows(d)[i], {"X", "Shear force"})
    THEN Raise("KeyError", 155)
    ELSE Return(PlotFragment(SfdHead, Coordinates(iterrows(d), "Shear force"), SfdTail))

generate_bmd_plot(d) ==
    IF \E i \in DOMAIN iterrows(d) : ~HasKeys(iterrows(d)[i], {"X", "Bending Moment"})
    THEN Raise("KeyError", 200)
    ELSE Return(PlotFragment(BmdHead, Coordinates(iterrows(d), "Bending Moment"), BmdTail))

(***************************************************************************)
(* pylatex containers.  doc.open is the chain of containers entered by     *)
(* "with doc.create(...)": doc.append adds to the innermost one, and       *)
(* leaving the with block appends the finished child to its parent.        *)
(***************************************************************************)
Text(s) == [kind |-> "text", text |-> s]
NoEscape(s) == [kind |-> "NoEscape", text |-> s]
Command(name, arg) == [kind |-> "Command", name |-> name, arg |-> arg]
Package(name, options) == [kind |-> "Package", name |-> name, options |-> options]
Section(title) == [kind |-> "Section", title |-> title, data |-> <<>>]
Subsection(title) == [kind |-> "Subsection", title |-> title, data |-> <<>>]
Figure(position) == [kind |-> "Figure", title |-> position, data |-> <<>>]
Tabular(table_spec) == [kind |-> "Tabular", title |-> table_spec, data |-> <<>>]
HLine == [kind |-> "hline"]
TableRow(cells) == [kind |-> "row", cells |-> cells]

NoDocument ==
    [documentclass |-> "", document_options |-> <<>>, packages |-> <<>>,
     preamble |-> <<>>, open |-> <<>>]

NoDataFrame == [columns |-> {}, rows |-> <<>>]

\* doc.append(item), table.add_row, table.add_hline, fig.add_caption
append(d, item) == [d EXCEPT !.open[Len(d.open)].data = Append(@, item)]

\* entering "with doc.create(child)"
create(d, child) == [d EXCEPT !.open = Append(@, child)]

\* leaving the with block
exit(d) ==
    LET n == Len(d.open)
    IN  [d EXCEPT !.open = [SubSeq(@, 1, n - 1) EXCEPT ![n - 1].data = Append(@, d.open[n])]]

\* A plausible slip: the image opened (to measure or copy it) while the
\* document is being assembled.
add_image_opens_file(filename, width, present) ==
    IF present THEN Return([kind |-> "includegraphics", filename |-> filename, width |-> width])
    ELSE Raise("FileNotFoundError", 54)

\* beam_fig.add_image(filename, width=...): only records the reference.
add_image(filename, width, present) ==
    Return([kind |-> "includegraphics", filename |-> filename, width |-> width])

\* A plausible slip: an except clause that turns a missing file into an
\* empty DataFrame.
read_excel_swallows(file) ==
    IF ~file.exists THEN Return([columns |-> RequiredColumns, rows |-> <<>>])
    ELSE Return([columns |-> file.columns, rows |-> file.rows])

\* pd.read_excel('beam_data.xlsx'): the sheet as it is; the columns are
\* whatever the sheet has.
read_excel(file) ==
    IF ~file.exists THEN Raise("FileNotFoundError", 23)
    ELSE Return([columns |-> file.columns, rows |-> file.rows])

\* The generated source of a finished document (doc.dumps()).
dumps(d) ==
    [documentclass |-> d.documentclass, document_options |-> d.document_options,
     packages |-> d.packages, preamble |-> d.preamble, body |-> d.open[1].data]

\* doc.generate_pdf('beam_analysis_report', clean_tex=False): the source is
\* written first, then the toolchain runs on it; the toolchain fails when it
\* is not installed or when the referenced image is absent.
generate_pdf(d, compiler, image) ==
    IF ~compiler THEN Raise("CompilerError", 119)
    ELSE IF ~image THEN Raise("CalledProcessError", 119)
    ELSE Return(dumps(d))

(***************************************************************************)
(* generate_beam_report, statement by statement                            *)
(***************************************************************************)
TexFile == "beam_analysis_report.tex"
PdfFile == "beam_analysis_report.pdf"

MsgReading == "Reading beam data from Excel..."
MsgGenerating == "Generating PDF report..."
MsgSuccess == "PDF report generated successfully: beam_analysis_report.pdf"

Init ==
    /\ xlsx \in {[exists |-> FALSE, columns |-> {}, rows |-> <<>>]}
                \cup UNION {{[exists |-> TRUE, columns |-> c, rows |-> r] :
                                r \in Sheets(c)} : c \in ColumnSets}
    /\ beam_png \in BOOLEAN
    /\ latex \in BOOLEAN
    /\ tex = <<>>
    /\ pdf = <<>>
    /\ pc = "read_excel"
    /\ df = NoDataFrame
    /\ doc = NoDocument
    /\ it = 0
    /\ stdout = <<>>
    /\ exc = NoExc
    /\ written = {}
    /\ run = 1
    /\ first = [rows |-> <<>>, tex |-> <<>>]

\* Lines 20-23.
ReadExcel ==
    /\ pc = "read_excel"
    /\ stdout' = Append(stdout, MsgReading)
    /\ LET r == read_excel(xlsx)
       IN  IF r.ok
           THEN df' = r.value[1] /\ pc' = "create_document" /\ exc' = exc
           ELSE df' = df /\ pc' = "aborted" /\ exc' = r.exc
    /\ UNCHANGED <<xlsx, beam_png, latex, tex, pdf, doc, it, written, run, first>>

\* Lines 26-32.
CreateDocument ==
    /\ pc = "create_document"
    /\ doc' = [documentclass |-> "report",
               document_options |-> <<"a4paper", "12pt">>,
               packages |-> <<Package("tikz", <<>>), Package("pgfplots", <<>>),
                              Package("geometry", <<"margin=1in">>),
                              Package("graphicx", <<>>)>>,
               preamble |-> <<>>,
               open |-> <<[kind |-> "Document", title |-> "", data |-> <<>>]>>]
    /\ pc' = "title_page"
    /\ UNCHANGED <<xlsx, beam_png, latex, tex, pdf, df, it, stdout, exc, written, run, first>>

\* A plausible slip: the date of the run written into the preamble instead
\* of the \today macro.
TitlePreamble_timestamp ==
    <<Command("title", Text("Beam Analysis Report")),
      Command("author", Text("Structural Engineering Analysis")),
      Command("date", Text(IF run = 1 THEN "date of the first run"
                                      ELSE "date of the second run"))>>

\* Lines 35-37.
TitlePreamble ==
    <<Command("title", Text("Beam Analysis Report")),
      Command("author", Text("Structural Engineering Analysis")),
      Command("date", NoEscape("\\today"))>>

\* Lines 34-42.
TitlePage ==
    /\ pc = "title_page"
    /\ doc' = append(append(append([doc EXCEPT !.preamble = @ \o TitlePreamble],
                                   NoEscape("\\maketitle")),
                            NoEscape("\\tableofcontents")),
                     NoEscape("\\newpage"))
    /\ pc' = "introduction"
    /\ UNCHANGED <<xlsx, beam_png, latex, tex, pdf, df, it, stdout, exc, written, run, first>>

\* Lines 45-55: the Section stays open for the Data Source subsection.
Introduction ==
    /\ pc = "introduction"
    /\ LET d1 == append(create(doc, Section("Introduction")),
                        Text("This engineering report presents a comprehensive analysis of a simply supported beam subjected to various loads. The analysis includes shear force and bending moment calculations with corresponding diagrams."))
           d2 == append(create(d1, Subsection("Beam Description")),
                        Text("The structural element under analysis is a simply supported beam with pinned support at one end and roller support at the other. This configuration allows for rotation at both ends while preventing vertical displacement at supports."))
           d3 == create(d2, Figure("h!"))
           img == add_image("beam.png", "0.8\\textwidth", beam_png)
       IN  IF img.ok
           THEN /\ doc' = exit(exit(append(append(d3, img.value[1]),
                                [kind |-> "caption",
                                 text |-> "Simply Supported Beam Configuration"])))
                /\ pc' = "data_source"
                /\ exc' = exc
           ELSE /\ doc' = d3
                /\ pc' = "aborted"
                /\ exc' = img.exc
    /\ UNCHANGED <<xlsx, beam_png, latex, tex, pdf, df, it, stdout, written, run, first>>

\* Lines 58-65: the subsection text, the Tabular and its header row.
DataSource ==
    /\ pc = "data_source"
    /\ LET d1 == append(create(doc, Subsection("Data Source")),
                        Text("The force and moment analysis data was obtained from the provided Excel spreadsheet. The calculated values at various points along the beam length are presented in the table below:"))
           d2 == create(d1, Tabular("|c|c|c|"))
       IN  doc' = append(append(append(d2, HLine),
                                TableRow(<<Text("Position (m)"), Text("Shear Force (kN)"),
                                           Text("Bending Moment (kNm)")>>)),
                         HLine)
    /\ it' = 0
    /\ pc' = "table_rows"
    /\ UNCHANGED <<xlsx, beam_png, latex, tex, pdf, df, stdout, exc, written, run, first>>

\* Lines 67-69, one iteration: row[...] raises KeyError for a column the
\* sheet does not have.
TableAddRow ==
    /\ pc = "table_rows"
    /\ it < Len(iterrows(df))
    /\ LET row == iterrows(df)[it + 1]
       IN  IF HasKeys(row, {"X", "Shear force", "Bending Moment"})
           THEN /\ doc' = append(append(doc,
                                   TableRow(<<Format1(row["X"]), Format1(row["Shear force"]),
                                              Format1(row["Bending Moment"])>>)),
                                 HLine)
                /\ it' = it + 1
                /\ pc' = pc
                /\ exc' = exc
           ELSE /\ doc' = doc
                /\ it' = it
                /\ pc' = "aborted"
                /\ exc' = [type |-> "KeyError", line |-> 68]
    /\ UNCHANGED <<xlsx, beam_png, latex, tex, pdf, df, stdout, written, run, first>>

\* A plausible change: the table left out when there is no row to show,
\* which makes the structure depend on the data.
TableEnd_drops_empty ==
    /\ pc = "table_rows"
    /\ it = Len(iterrows(df))
    /\ doc' = IF it = 0
              THEN exit(exit([doc EXCEPT !.open = SubSeq(@, 1, Len(@) - 1)]))
              ELSE exit(exit(exit(doc)))
    /\ pc' = "analysis_sfd"
    /\ UNCHANGED <<xlsx, beam_png, latex, tex, pdf, df, it, stdout, exc, written, run, first>>

\* Lines 67-70, the loop is exhausted: the Tabular, the subsection and the
\* Introduction section are closed.
TableEnd ==
    /\ pc = "table_rows"
    /\ it = Len(iterrows(df))
    /\ doc' = exit(exit(exit(doc)))
    /\ pc' = "analysis_sfd"
    /\ UNCHANGED <<xlsx, beam_png, latex, tex, pdf, df, it, stdout, exc, written, run, first>>

\* Lines 83-88.
SfdObservations ==
    <<Text("\\textbf{Key Observations:}"),
      NoEscape("\\begin{itemize}"),
      NoEscape("\\item Maximum shear force: 45 kN"),
      NoEscape("\\item Zero shear occurs at 7.5 m from left support"),
      NoEscape("\\item Shear force changes sign at the point of maximum moment"),
      NoEscape("\\end{itemize}")>>

\* Lines 98-103.
BmdObservations ==
    <<Text("\\textbf{Key Observations:}"),
      NoEscape("\\begin{itemize}"),
      NoEscape("\\item Maximum bending moment: 168.75 kNm at 7.5 m"),
      NoEscape("\\item Zero moments occur at both supports"),
      NoEscape("\\item Parabolic distribution indicates uniformly distributed load"),
      NoEscape("\\end{itemize}")>>

RECURSIVE appendAll(_, _)
appendAll(d, items) ==
    IF items = <<>> THEN d ELSE appendAll(append(d, Head(items)), Tail(items))

\* Lines 72-88: the Analysis section stays open for the BMD subsection.
AnalysisSfd ==
    /\ pc = "analysis_sfd"
    /\ LET d1 == append(create(doc, Section("Analysis")),
                        Text("The beam analysis reveals the internal forces and moments along the beam length. Key observations from the calculations:"))
           d2 == append(create(d1, Subsection("Shear Force Diagram (SFD)")),
                        Text("The Shear Force Diagram illustrates the variation of internal shear force along the beam length. Positive values indicate upward shear, while negative values indicate downward shear."))
           sfd_tikz == generate_sfd_plot(df)
       IN  IF sfd_tikz.ok
           THEN /\ doc' = exit(appendAll(append(d2, sfd_tikz.value[1]), SfdObservations))
                /\ pc' = "analysis_bmd"
                /\ exc' = exc
           ELSE /\ doc' = d2
                /\ pc' = "aborted"
                /\ exc' = sfd_tikz.exc
    /\ UNCHANGED <<xlsx, beam_png, latex, tex, pdf, df, it, stdout, written, run, first>>

\* Lines 91-103, and the end of the Analysis section.
AnalysisBmd ==
    /\ pc = "analysis_bmd"
    /\ LET d1 == append(create(doc, Subsection("Bending Moment Diagram (BMD)")),
                        Text("The Bending Moment Diagram shows the variation of internal bending moment. Positive bending moment causes tension in the bottom fibers of the beam."))
           bmd_tikz == generate_bmd_plot(df)
       IN  IF bmd_tikz.ok
           THEN /\ doc' = exit(exit(appendAll(append(d1, bmd_tikz.value[1]),
                                              BmdObservations)))
                /\ pc' = "summary"
                /\ exc' = exc
           ELSE /\ doc' = d1
                /\ pc' = "aborted"
                /\ exc' = bmd_tikz.exc
    /\ UNCHANGED <<xlsx, beam_png, latex, tex, pdf, df, it, stdout, written, run, first>>

\* Lines 106-115.
Summary ==
    /\ pc = "summary"
    /\ LET d1 == append(create(doc, Section("Summary")),
                        Text("This analysis successfully demonstrates the fundamental principles of beam mechanics for a simply supported configuration."))
           d2 == exit(append(create(d1, Subsection("Shear Force Diagram")),
                        Text("A Shear Force Diagram (SFD) is a graphical representation that shows the internal shear force at every point along a beam. It helps structural engineers identify critical sections where shear stresses are maximum and where shear reinforcement may be required.")))
           d3 == exit(append(create(d2, Subsection("Bending Moment Diagram")),
                        Text("A Bending Moment Diagram (BMD) illustrates the internal bending moment along the beam length. It indicates locations of maximum bending stress, helping engineers determine appropriate beam dimensions and reinforcement for moment resistance.")))
       IN  doc' = exit(append(d3,
                        Text("Both diagrams are essential tools in structural design, ensuring that beams are properly sized and reinforced to withstand applied loads safely.")))
    /\ pc' = "generate_pdf"
    /\ UNCHANGED <<xlsx, beam_png, latex, tex, pdf, df, it, stdout, exc, written, run, first>>

\* A plausible slip: the render call wrapped in try/except that only logs,
\* so the success message follows a failed render.
GeneratePdf_swallows ==
    /\ pc = "generate_pdf"
    /\ tex' = <<dumps(doc)>>
    /\ LET r == generate_pdf(doc, latex, beam_png)
       IN  /\ pdf' = IF r.ok THEN r.value ELSE pdf
           /\ written' = IF r.ok THEN written \cup {TexFile, PdfFile}
                         ELSE written \cup {TexFile}
    /\ stdout' = stdout \o <<MsgGenerating, MsgSuccess>>
    /\ pc' = "done"
    /\ UNCHANGED <<xlsx, beam_png, latex, df, doc, it, exc, run, first>>

\* Lines 117-120.
GeneratePdf ==
    /\ pc = "generate_pdf"
    /\ tex' = <<dumps(doc)>>
    /\ LET r == generate_pdf(doc, latex, beam_png)
       IN  IF r.ok
           THEN /\ pdf' = r.value
                /\ written' = written \cup {TexFile, PdfFile}
                /\ stdout' = stdout \o <<MsgGenerating, MsgSuccess>>
                /\ pc' = "done"
                /\ exc' = exc
           ELSE /\ pdf' = pdf
                /\ written' = written \cup {TexFile}
                /\ stdout' = Append(stdout, MsgGenerating)
                /\ pc' = "aborted"
                /\ exc' = r.exc
    /\ UNCHANGED <<xlsx, beam_png, latex, df, doc, it, run, first>>

\* Lines 211-212 a second time: the program is executed again, as a new
\* process in the same working directory.  The files of the first execution
\* are still there; the rows of the spreadsheet may have been edited in
\* between (or not).
Rerun ==
    /\ run = 1
    /\ pc \in {"done", "aborted"}
    /\ first' = [rows |-> xlsx.rows,
                 tex |-> IF TexFile \in written THEN tex ELSE <<>>]
    /\ \E rows \in (IF xlsx.exists THEN Sheets(xlsx.columns) ELSE {xlsx.rows}) :
          xlsx' = [xlsx EXCEPT !.rows = rows]
    /\ run' = 2
    /\ pc' = "read_excel"
    /\ df' = NoDataFrame
    /\ doc' = NoDocument
    /\ it' = 0
    /\ stdout' = <<>>
    /\ exc' = NoExc
    /\ written' = {}
    /\ UNCHANGED <<beam_png, latex, tex, pdf>>

Next ==
    \/ ReadExcel
    \/ CreateDocument
    \/ TitlePage
    \/ Introduction
    \/ DataSource
    \/ TableAddRow
    \/ TableEnd
    \/ AnalysisSfd
    \/ AnalysisBmd
    \/ Summary
    \/ GeneratePdf
    \/ Rerun

Spec == Init /\ [][Next]_vars

(***************************************************************************)
(* Reading a document back                                                 *)
(***************************************************************************)
IsContainer(n) == "data" \in DOMAIN n

\* All nodes of a list of finished nodes, a container before its content.
RECURSIVE Flatten(_)
Flatten(items) ==
    IF items = <<>> THEN <<>>
    ELSE LET n == Head(items)
         IN  <<n>> \o (IF IsContainer(n) THEN Flatten(n.data) ELSE <<>>)
                  \o Flatten(Tail(items))

\* All nodes of a document under construction, in document order: what an
\* open container already holds comes before the container opened inside it.
RECURSIVE FlattenOpen(_)
FlattenOpen(open) ==
    IF open = <<>> THEN <<>>
    ELSE <<Head(open)>> \o Flatten(Head(open).data) \o FlattenOpen(Tail(open))

AllNodes(d) == FlattenOpen(d.open)

OfKind(nodes, kind) == SelectSeq(nodes, LAMBDA n : n.kind = kind)

Fragments(d) == OfKind(AllNodes(d), "tikz")
Tables(d) == OfKind(AllNodes(d), "Tabular")

\* The column a fragment plots, told by its title.
FieldOf(f) == IF f.head.title = "Shear Force Diagram" THEN "Shear force"
              ELSE "Bending Moment"

\* The run got past statement `line` of generate_beam_report.
AssemblyDone == pc \in {"generate_pdf", "done"} \/ (pc = "aborted" /\ exc.line = 119)
TableDone == pc \in {"analysis_sfd", "analysis_bmd", "summary"} \/ AssemblyDone
            \/ (pc = "aborted" /\ exc.line \in {155, 200})
SfdDone == pc \in {"analysis_bmd", "summary"} \/ AssemblyDone
           \/ (pc = "aborted" /\ exc.line = 200)
BmdDone == pc = "summary" \/ AssemblyDone

(***************************************************************************)
(* Claims                                                                  *)
(***************************************************************************)

\* C1: every plot fragment in the document holds exactly one coordinate
\* token per row of the DataFrame, the i-th token made of the X and of the
\* plotted column of the i-th row (nothing skipped, reordered, sorted or
\* merged, also when rows share an X); the shear fragment is there once the
\* SFD subsection is built and the moment fragment once the BMD one is.
C1_CoordinatesFollowDataset ==
    /\ \A k \in DOMAIN Fragments(doc) :
          LET f == Fragments(doc)[k]
          IN  /\ Len(f.coordinates) = Len(df.rows)
              /\ \A i \in DOMAIN df.rows :
                    f.coordinates[i] = [x |-> Str(df.rows[i]["X"]),
                                        y |-> Str(df.rows[i][FieldOf(f)])]
    /\ SfdDone => \E k \in DOMAIN Fragments(doc) :
                     FieldOf(Fragments(doc)[k]) = "Shear force"
    /\ BmdDone => \E k \in DOMAIN Fragments(doc) :
                     FieldOf(Fragments(doc)[k]) = "Bending Moment"

\* Both fragments built from two rows that share their X and differ in shear.
C1_Witness ==
    /\ BmdDone
    /\ Len(Fragments(doc)) = 2
    /\ Len(df.rows) = 2
    /\ df.rows[1]["X"] = df.rows[2]["X"]
    /\ df.rows[1]["Shear force"] # df.rows[2]["Shear force"]

\* The digit a one-character fraction stands for (10 for anything else).
DigitOf(s) ==
    CASE s = "0" -> 0 [] s = "1" -> 1 [] s = "2" -> 2 [] s = "3" -> 3 [] s = "4" -> 4
      [] s = "5" -> 5 [] s = "6" -> 6 [] s = "7" -> 7 [] s = "8" -> 8 [] s = "9" -> 9
      [] OTHER -> 10

\* The cell shows v (in quarters) with one decimal: one digit after the
\* point and the shown number t/10 within 0.05 of v/4.
ShowsOneDecimal(cell, v) ==
    /\ DigitOf(cell.frac) < 10
    /\ LET t == (IF cell.sign = "-" THEN -1 ELSE 1) * (10 * cell.int + DigitOf(cell.frac))
       IN  Abs(10 * v - 4 * t) <= 2

HeaderCells ==
    <<Text("Position (m)"), Text("Shear Force (kN)"), Text("Bending Moment (kNm)")>>

\* The table holds the header row and one data row for each of the first n
\* rows of the DataFrame, in order, each value shown with one decimal.
TableHolds(t, n) ==
    /\ Len(t.data) = 3 + 2 * n
    /\ t.data[1] = HLine /\ t.data[2] = TableRow(HeaderCells) /\ t.data[3] = HLine
    /\ \A i \in 1..n :
          /\ t.data[3 + 2 * i] = HLine
          /\ t.data[2 + 2 * i].kind = "row"
          /\ Len(t.data[2 + 2 * i].cells) = 3
          /\ ShowsOneDecimal(t.data[2 + 2 * i].cells[1], df.rows[i]["X"])
          /\ ShowsOneDecimal(t.data[2 + 2 * i].cells[2], df.rows[i]["Shear force"])
          /\ ShowsOneDecimal(t.data[2 + 2 * i].cells[3], df.rows[i]["Bending Moment"])

\* C2: the Data Source table has one header row followed by one data row per
\* Record, the i-th data row showing X, Shear force and Bending Moment of
\* the i-th Record with one decimal place, in Dataset order; while the loop
\* of line 67 runs the table holds the rows consumed so far.
C2_TableFollowsDataset ==
    /\ Len(Tables(doc)) <= 1
    /\ \A k \in DOMAIN Tables(doc) : TableHolds(Tables(doc)[k], it)
    /\ TableDone => Len(Tables(doc)) = 1 /\ it = Len(df.rows)

\* A finished table of two rows, one of them with values that are ties
\* (15.25, 67.5) or negative.
C2_Witness ==
    /\ TableDone
    /\ df.columns = RequiredColumns
    /\ Len(df.rows) = 2
    /\ df.rows[1]["Shear force"] = -63
    /\ Len(Tables(doc)) = 1
    /\ Len(Tables(doc)[1].data) = 7

\* C3: with beam_data.xlsx missing the run ends at line 23 with the load
\* error: no Document is created, nothing is appended, generate_pdf is not
\* called and no file is written.
C3_MissingFileAbortsAtLoad ==
    ~xlsx.exists =>
        /\ pc \in {"read_excel", "aborted"}
        /\ pc = "aborted" => exc = [type |-> "FileNotFoundError", line |-> 23]
        /\ doc = NoDocument
        /\ df = NoDataFrame
        /\ written = {} /\ tex = <<>> /\ pdf = <<>>
        /\ \A i \in DOMAIN stdout : stdout[i] = MsgReading

C3_Witness == ~xlsx.exists /\ pc = "aborted" /\ stdout = <<MsgReading>>

\* C4: a spreadsheet lacking a required column makes the load step fail
\* (at line 23), whatever its rows, before any Document exists.
C4_MissingColumnFailsAtLoad ==
    (xlsx.exists /\ xlsx.columns # RequiredColumns /\ pc # "read_excel") =>
        /\ pc = "aborted"
        /\ exc.line = 23
        /\ doc = NoDocument

\* The document a run with no rows assembles has a complete structure.
Complete(d) == Len(d.open) = 1 /\ Len(Fragments(d)) = 2 /\ Len(Tables(d)) = 1

\* C5: with a readable spreadsheet of zero rows nothing fails before line
\* 119: both fragments have an empty coordinate list, the table has the
\* header row only, and the run arrives at generate_pdf with the complete
\* document.
C5_EmptyDatasetIsNoFailure ==
    (xlsx.exists /\ xlsx.rows = <<>>) =>
        /\ exc # NoExc => exc.line = 119
        /\ \A k \in DOMAIN Fragments(doc) : Fragments(doc)[k].coordinates = <<>>
        /\ \A k \in DOMAIN Tables(doc) :
              Tables(doc)[k].data = <<HLine, TableRow(HeaderCells), HLine>>
        /\ SfdDone => Len(Fragments(doc)) >= 1
        /\ AssemblyDone => Complete(doc)

C5_Witness ==
    /\ xlsx.exists /\ xlsx.rows = <<>>
    /\ pc = "generate_pdf"
    /\ Complete(doc)
    /\ Fragments(doc)[1].coordinates = <<>>

\* C6: with a valid spreadsheet and beam.png missing, loading and the whole
\* assembly finish without an exception (add_image does not look at the
\* file), the only failure is the one of generate_pdf at line 119, no PDF
\* is produced, and by then the .tex source has been written.
C6_MissingImageFailsOnlyAtRender ==
    (xlsx.exists /\ xlsx.columns = RequiredColumns /\ ~beam_png) =>
        /\ exc # NoExc => exc.line = 119
        /\ pc # "done"
        /\ PdfFile \notin written /\ pdf = <<>>
        /\ pc = "aborted" =>
              /\ Complete(doc)
              /\ TexFile \in written /\ tex = <<dumps(doc)>>

\* The toolchain is installed, so the missing image is the only cause.
C6_Witness ==
    /\ xlsx.exists /\ xlsx.columns = RequiredColumns /\ xlsx.rows # <<>>
    /\ ~beam_png /\ latex
    /\ pc = "aborted" /\ exc = [type |-> "CalledProcessError", line |-> 119]
    /\ TexFile \in written

Printed(msg) == \E i \in DOMAIN stdout : stdout[i] = msg

\* What each kind of abort leaves behind: the statements after the failing
\* one have had no effect.
NothingAfterFailure ==
    /\ exc.line = 23 => doc = NoDocument /\ df = NoDataFrame /\ written = {}
                        /\ stdout = <<MsgReading>>
    /\ exc.line = 68 => ~Complete(doc) /\ Len(Fragments(doc)) = 0 /\ written = {}
                        /\ stdout = <<MsgReading>>
    /\ exc.line = 119 => stdout = <<MsgReading, MsgGenerating>>
                         /\ written = {TexFile}

C7_State ==
    /\ exc # NoExc <=> pc = "aborted"
    /\ pc = "aborted" => /\ ~Printed(MsgSuccess)
                         /\ PdfFile \notin written
                         /\ exc.line \in {23, 68, 119}
                         /\ NothingAfterFailure
    /\ Printed(MsgSuccess) <=> pc = "done"
    /\ PdfFile \in written <=> pc = "done"
    /\ pc = "done" => /\ xlsx.exists /\ beam_png /\ latex
                      /\ Complete(doc) /\ pdf = <<dumps(doc)>>

\* C7: an exception at any statement (load, assembly, render) ends the run
\* there: the run is aborted exactly when an exception was raised, an
\* aborted run takes no further step (no later statement, no retry), it has
\* not printed the success message and has not produced the PDF; the PDF is
\* produced exactly by the runs in which load, assembly and render all
\* succeeded.
C7_FailureAbortsRun ==
    /\ []C7_State
    /\ [][(pc = "aborted" /\ run' = run) => UNCHANGED vars]_vars

\* A second execution aborted in the middle of the table, the Section, the
\* Subsection and the Tabular still open.
C7_Witness ==
    /\ run = 2
    /\ pc = "aborted"
    /\ exc.line = 68
    /\ Len(doc.open) = 4

\* The label of a node in the outline of the document.
Label(n) ==
    <<n.kind,
      CASE n.kind \in {"Section", "Subsection", "Figure", "Tabular"} -> n.title
        [] n.kind = "NoEscape" -> n.text
        [] n.kind = "tikz" -> n.head.title
        [] n.kind = "includegraphics" -> n.filename
        [] n.kind = "Command" -> n.name
        [] OTHER -> "">>

\* The outline: the preamble commands, then every node of the body in
\* document order except the rows and rules inside the table.
Outline(d) ==
    LET body == SelectSeq(AllNodes(d), LAMBDA n : n.kind \notin {"Document", "row", "hline"})
    IN  [i \in DOMAIN d.preamble |-> Label(d.preamble[i])]
        \o [i \in DOMAIN body |-> Label(body[i])]

FixedOutline ==
    << <<"Command", "title">>, <<"Command", "author">>, <<"Command", "date">>,
       <<"NoEscape", "\\maketitle">>,
       <<"NoEscape", "\\tableofcontents">>,
       <<"NoEscape", "\\newpage">>,
       <<"Section", "Introduction">>,
         <<"text", "">>,
         <<"Subsection", "Beam Description">>,
           <<"text", "">>,
           <<"Figure", "h!">>,
             <<"includegraphics", "beam.png">>,
             <<"caption", "">>,
         <<"Subsection", "Data Source">>,
           <<"text", "">>,
           <<"Tabular", "|c|c|c|">>,
       <<"Section", "Analysis">>,
         <<"text", "">>,
         <<"Subsection", "Shear Force Diagram (SFD)">>,
           <<"text", "">>,
           <<"tikz", "Shear Force Diagram">>,
           <<"text", "">>,
           <<"NoEscape", "\\begin{itemize}">>,
           <<"NoEscape", "\\item Maximum shear force: 45 kN">>,
           <<"NoEscape", "\\item Zero shear occurs at 7.5 m from left support">>,
           <<"NoEscape", "\\item Shear force changes sign at the point of maximum moment">>,
           <<"NoEscape", "\\end{itemize}">>,
         <<"Subsection", "Bending Moment Diagram (BMD)">>,
           <<"text", "">>,
           <<"tikz", "Bending Moment Diagram">>,
           <<"text", "">>,
           <<"NoEscape", "\\begin{itemize}">>,
           <<"NoEscape", "\\item Maximum bending moment: 168.75 kNm at 7.5 m">>,
           <<"NoEscape", "\\item Zero moments occur at both supports">>,
           <<"NoEscape", "\\item Parabolic distribution indicates uniformly distributed load">>,
           <<"NoEscape", "\\end{itemize}">>,
       <<"Section", "Summary">>,
         <<"text", "">>,
         <<"Subsection", "Shear Force Diagram">>,
           <<"text", "">>,
         <<"Subsection", "Bending Moment Diagram">>,
           <<"text", "">>,
         <<"text", "">> >>

IsPrefix(s, t) == Len(s) <= Len(t) /\ s = SubSeq(t, 1, Len(s))

\* The nesting of an assembled document: three sections at the top, the
\* table inside Data Source inside Introduction, the fragments inside their
\* subsections inside Analysis, shear first.
Nesting(d) ==
    LET top == OfKind(d.open[1].data, "Section")
    IN  /\ [i \in DOMAIN top |-> top[i].title] = <<"Introduction", "Analysis", "Summary">>
        /\ LET subs == OfKind(top[1].data, "Subsection")
           IN  /\ [i \in DOMAIN subs |-> subs[i].title] = <<"Beam Description", "Data Source">>
               /\ Len(OfKind(subs[1].data, "Figure")) = 1
               /\ Len(OfKind(subs[2].data, "Tabular")) = 1
        /\ LET subs == OfKind(top[2].data, "Subsection")
           IN  /\ Len(subs) = 2
               /\ Len(OfKind(subs[1].data, "tikz")) = 1
               /\ FieldOf(OfKind(subs[1].data, "tikz")[1]) = "Shear force"
               /\ Len(OfKind(subs[2].data, "tikz")) = 1
               /\ FieldOf(OfKind(subs[2].data, "tikz")[1]) = "Bending Moment"

\* C8: whatever the data, the elements are appended in one fixed order: at
\* every moment the outline of the document is a beginning of the fixed
\* outline (title block, contents, Introduction with narrative, image and
\* Data Source table, Analysis with the SFD fragment and bullets then the
\* BMD fragment and bullets, Summary), and the assembled document has the
\* whole of it, nested as the sections say.
C8_FixedOrder ==
    /\ doc # NoDocument => IsPrefix(Outline(doc), FixedOutline)
    /\ AssemblyDone => /\ Outline(doc) = FixedOutline
                       /\ Len(doc.open) = 1
                       /\ Nesting(doc)

C8_Witness ==
    /\ pc = "generate_pdf"
    /\ Len(df.rows) = 2
    /\ Outline(doc) = FixedOutline

\* The nodes with the data taken out: the table keeps its header row only
\* and each fragment loses its coordinate list.
RECURSIVE RedactSeq(_)
RedactSeq(items) ==
    [i \in DOMAIN items |->
        LET n == items[i]
        IN  IF n.kind = "Tabular" THEN [n EXCEPT !.data = SubSeq(@, 1, 3)]
            ELSE IF n.kind = "tikz" THEN [n EXCEPT !.coordinates = <<>>]
            ELSE IF IsContainer(n) THEN [n EXCEPT !.data = RedactSeq(n.data)]
            ELSE n]

Redact(source) == [source EXCEPT !.body = RedactSeq(@)]

BothRunsWroteSource == run = 2 /\ first.tex # <<>> /\ TexFile \in written

\* C9: two executions that differ only in the rows of the spreadsheet write
\* sources that are equal once the table's data rows and the two coordinate
\* lists are taken out: the Key Observations bullets and the axis settings
\* of both fragments do not depend on the data.
C9_OnlyDataDiffers ==
    BothRunsWroteSource => Redact(tex[1]) = Redact(first.tex[1])

C9_Witness ==
    /\ BothRunsWroteSource
    /\ Len(first.rows) # Len(xlsx.rows)
    /\ xlsx.rows # <<>>
    /\ tex # first.tex

\* C10: a second execution on the unchanged spreadsheet writes the same
\* source as the first; a new execution starts from nothing, and the
\* DataFrame stays what was read from the sheet all through the run.
C10_SameInputSameSource ==
    /\ (BothRunsWroteSource /\ first.rows = xlsx.rows) => tex = first.tex
    /\ df # NoDataFrame => df = [columns |-> xlsx.columns, rows |-> xlsx.rows]
    /\ pc = "read_excel" => doc = NoDocument /\ df = NoDataFrame /\ written = {}

C10_Witness ==
    /\ BothRunsWroteSource
    /\ first.rows = xlsx.rows
    /\ Len(xlsx.rows) = 2
    /\ pc = "done"

====
